---- MODULE Spec2Model ----
(***************************************************************************)
(* A model of the messaging core of fp8/gcutils: the retry combinator of   *)
(* src/core/helper.ts and the Pub/Sub publisher / subscriber of            *)
(* src/pubsub (pstore.ts and base.ts).                                      *)
(*                                                                         *)
(* These specifications share this module:                                 *)
(*   RetrySpec      one run of retry(action, options)                      *)
(*   TerminatingSpec  the same run, with an action that always settles     *)
(*   ProvisionSpec  callers of createTopic / createSubscription on a       *)
(*                  working transport                                      *)
(*   FailingSpec    one such caller on a transport that can fail           *)
(*   ReplaceSpec    a Subscriber that is closed or deleted and then         *)
(*                  replaced through createSubscriber                     *)
(*   JsonSpec       one message from publishJson / publishMessage to the   *)
(*                  handler built by listenJson                            *)
(*   PayloadSpec    one call of getPubSubLoggerPayload                     *)
(*   Spec           a Subscriber, its listeners and the delivery callbacks *)
(*                  installed by setupSubscriptionWithHandlers             *)
(*   LifecycleSpec  a Subscriber, its listeners and the 'error' events of  *)
(*                  its transport                                          *)
(*   FlowSpec       messages published with publishJson to a Subscriber    *)
(*                  that listens with listenJson, under fair delivery      *)
(***************************************************************************)
EXTENDS Integers, Sequences, FiniteSets, Bags, TLC

VARIABLES
    \* ---- retry(action, options) of src/core/helper.ts ----
    options,      \* the Partial<IRetryOptions> given by the caller
    counter,      \* `let counter = 0` of retry
    outcomes,     \* what each invocation of `action` did, in order
    waits,        \* number of `await delay(opt.waitFor)` performed
    rpc,          \* where retry stands: "idle", "loop" or the exit it took
    result,       \* the value returned, or the error raised, by retry
    \* ---- Subscriber of src/pubsub/pstore.ts and its transport ----
    subExists,        \* the subscription resource exists on the transport
    subscriberClosed, \* Subscriber.#subscriberClosed
    listeners,        \* handler sets installed on Subscriber.#subscription,
                      \* as a bag: how many of each kind
    listenCall,       \* the listen()/listenJson() call in progress, if any
    closePc,          \* where the close() or delete() call in progress stands
    completed,        \* which of close(), the close() inside delete(), and
                      \* delete() have returned normally
    msgs,             \* messages published and not acked yet, by id
    inflight,         \* bag of 'message' callbacks awaiting their user handler
    last,             \* what the latest step did, as its callers observe it
    \* ---- PubSubService.createTopic / createSubscription ----
    topicExists,      \* the topic resource exists on the transport
    prov,             \* per caller, the create call in progress
    log,              \* per resource kind, how the finished create calls ended
    overlap,          \* resource kinds on which two create calls ran at once
    \* ---- Publisher.publishJson / publishMessage and listenJson ----
    sent,             \* the publish call made: its operation and arguments
    wire,             \* the message handed to the transport: data, attributes
    got               \* what the handler built by listenJson did with it

rvars == <<options, counter, outcomes, waits, rpc, result>>

pvars == <<subExists, subscriberClosed, listeners, listenCall, closePc,
           completed, msgs, inflight, last>>

cvars == <<topicExists, prov, log, overlap>>

jvars == <<sent, wire, got>>

vars == <<options, counter, outcomes, waits, rpc, result,
          subExists, subscriberClosed, listeners, listenCall, closePc,
          completed, msgs, inflight, last,
          topicExists, prov, log, overlap,
          sent, wire, got>>

\* What a step did: the program point, what the call returned or raised
\* ("pending" while it awaits), the calls made on the transport objects, and
\* the bag of 'message' callbacks that ran to their end.
Did(step, ret, calls, finished) ==
    [step |-> step, ret |-> ret, calls |-> calls, finished |-> finished]

(***************************************************************************)
(*                       retry  (src/core/helper.ts)                       *)
(***************************************************************************)

\* Largest maxRetry a caller passes in the model.
MaxRetryBound == 3

\* Smallest maxRetry a caller passes in the model: a negative number.
LeastMaxRetry == 0 - 1

\* `options.maxRetry ?? 3`
DefaultMaxRetry == 3

\* JavaScript values that an action can return or raise.
Undefined == "undefined"
PlainValues == {"v1", "v2"}
ErrorValues == {"Error", "RetryError"}
NonErrorThrown == "thrown-string"

\* `x instanceof Error`; RetryError extends Error.
IsError(v) == v \in ErrorValues

\* `x instanceof RetryError`
IsRetryError(v) == v = "RetryError"

\* One invocation of the action: it resolves with a value or it rejects.
Outcomes ==
    [kind : {"return"}, val : {Undefined} \cup PlainValues \cup ErrorValues]
    \cup [kind : {"raise"}, val : ErrorValues \cup {NonErrorThrown}]

\* A shouldRetry predicate is the set of values it answers true for.
PredicateChoices ==
    { {}, {Undefined}, {"v1"}, {"Error"}, {"RetryError"}, {"v1", "Error"},
      {Undefined, "RetryError"},
      {Undefined} \cup PlainValues \cup ErrorValues }

\* Partial<IRetryOptions>: an optional field is {} when absent, {v} when given.
Optional(S) == {{}} \cup {{v} : v \in S}

RetryOptions ==
    [maxRetry : Optional(LeastMaxRetry..MaxRetryBound),
     retryOnUndefined : Optional(BOOLEAN),
     retryOnAllErrors : Optional(BOOLEAN),
     shouldRetry : Optional(PredicateChoices)]

\* `field ?? dflt`
OrDefault(field, dflt) == IF field = {} THEN dflt ELSE CHOOSE v \in field : TRUE

\* The resolved options `opt` of retry.
Opt ==
    [maxRetry |-> OrDefault(options.maxRetry, DefaultMaxRetry),
     retryOnUndefined |-> OrDefault(options.retryOnUndefined, TRUE),
     retryOnAllErrors |-> OrDefault(options.retryOnAllErrors, TRUE),
     shouldRetry |-> options.shouldRetry]

\* A retry that never consults the predicate.
ShouldRetrySaysNever(v) == FALSE

\* `opt.shouldRetry && opt.shouldRetry(v)`
ShouldRetrySays(v) ==
    /\ Opt.shouldRetry # {}
    /\ v \in OrDefault(Opt.shouldRetry, {})

\* A catch block without the RetryError case.
CatchDecisionNoRetryError(err) ==
    IF IsError(err) /\ ShouldRetrySays(err) THEN "continue"
    ELSE IF Opt.retryOnAllErrors THEN "continue"
    ELSE "throw"

\* A catch block that swallows every error.
CatchDecisionRetryAll(err) == "continue"

\* The catch block of retry: "continue" or re-raise `err`.
CatchDecision(err) ==
    IF IsError(err) /\ ShouldRetrySays(err) THEN "continue"
    ELSE IF Opt.retryOnAllErrors THEN "continue"
    ELSE IF IsRetryError(err) THEN "continue"
    ELSE "throw"

\* A try block that retries an undefined result whatever retryOnUndefined is.
TryDecisionUndefinedAlwaysRetried(res) ==
    IF ShouldRetrySays(res) THEN "continue"
    ELSE IF IsError(res) THEN CatchDecision(res)
    ELSE IF res = Undefined THEN "continue"
    ELSE "return"

\* A try block that hands an Error result back to the caller.
TryDecisionReturnsErrors(res) ==
    IF ShouldRetrySays(res) THEN "continue"
    ELSE IF res = Undefined /\ Opt.retryOnUndefined THEN "continue"
    ELSE "return"

\* A try block that never retries an undefined result.
TryDecisionNoUndefinedRetry(res) ==
    IF ShouldRetrySays(res) THEN "continue"
    ELSE IF IsError(res) THEN CatchDecision(res)
    ELSE "return"

\* The try block of retry for a resolved `res`.
TryDecision(res) ==
    IF ShouldRetrySays(res) THEN "continue"
    ELSE IF IsError(res) THEN CatchDecision(res)
    ELSE IF res = Undefined /\ Opt.retryOnUndefined THEN "continue"
    ELSE "return"

\* What one loop iteration decides for the outcome of its invocation.
Decision(o) ==
    IF o.kind = "return" THEN TryDecision(o.val) ELSE CatchDecision(o.val)

\* A loop that tests its condition after the first iteration only.
LoopConditionAfterFirst == counter = 0 \/ counter < Opt.maxRetry

\* A loop that runs one iteration too many.
LoopConditionOffByOne == counter <= Opt.maxRetry

\* `while (counter < opt.maxRetry)`
LoopCondition == counter < Opt.maxRetry

\* A loop that waits before every attempt, the first one too.
WaitsBeforeAlways(c) == 1

\* `if (counter > 1) await delay(opt.waitFor)` with counter already incremented.
WaitsBefore(c) == IF c > 1 THEN 1 ELSE 0

\* The caller starts retry(action, options).
RetryCall ==
    /\ rpc = "idle"
    /\ rpc' = "loop"
    /\ counter' = 0
    /\ UNCHANGED <<options, outcomes, waits, result>>
    /\ UNCHANGED pvars
    /\ UNCHANGED jvars
    /\ UNCHANGED cvars

\* One iteration of the loop: wait, invoke the action, decide.
RetryAttempt ==
    /\ rpc = "loop"
    /\ LoopCondition
    /\ \E o \in Outcomes :
        /\ counter' = counter + 1
        /\ waits' = waits + WaitsBefore(counter + 1)
        /\ outcomes' = Append(outcomes, o)
        /\ CASE Decision(o) = "continue" ->
                    /\ rpc' = "loop"
                    /\ result' = result
             [] Decision(o) = "return" ->
                    /\ rpc' = "return-result"
                    /\ result' = o.val
             [] Decision(o) = "throw" ->
                    /\ rpc' = "throw-error"
                    /\ result' = o.val
    /\ UNCHANGED options
    /\ UNCHANGED pvars
    /\ UNCHANGED jvars
    /\ UNCHANGED cvars

\* A retry that raises a timeout error when the attempts are used up.
ExhaustedExitTimeout == "throw-timeout"

\* What retry does when the loop ends: "return-undefined".
ExhaustedExit == "return-undefined"

\* The loop ends: `return undefined`.
RetryExhausted ==
    /\ rpc = "loop"
    /\ ~LoopCondition
    /\ rpc' = ExhaustedExit
    /\ result' = Undefined
    /\ UNCHANGED <<options, counter, outcomes, waits>>
    /\ UNCHANGED pvars
    /\ UNCHANGED jvars
    /\ UNCHANGED cvars

(***************************************************************************)
(*   The JSON path: Publisher.publishJson -> transport -> the handler      *)
(*   built by Subscriber.listenJson  (src/pubsub/pstore.ts)                *)
(***************************************************************************)

\* JavaScript values, as a tag and a body.  The body of an array is the
\* sequence of its items, the body of an object the sequence of its
\* <<key, value>> members in insertion order.
JNull == <<"null", <<>>>>
JUndefined == <<"undefined", <<>>>>
JBool(b) == <<"bool", <<b>>>>
JNum(n) == <<"num", <<n>>>>
JStr(str) == <<"str", <<str>>>>
JArr(items) == <<"arr", items>>
JObj(members) == <<"obj", members>>

\* Values that JSON can represent.
JsonValues ==
    { JNull, JBool("true"), JBool("false"), JNum("1"), JStr("a"),
      JArr(<<>>), JArr(<<JNum("1"), JStr("a")>>),
      JArr(<<JObj(<<<<"a", JNum("1")>>>>), JNull>>),
      JObj(<<>>), JObj(<<<<"a", JNum("1")>>>>),
      JObj(<<<<"id", JNum("1")>>, <<"message", JStr("a")>>>>),
      JObj(<<<<"a", JObj(<<<<"b", JNull>>>>)>>, <<"c", JArr(<<JBool("true")>>)>>>>) }

\* Values of type T that JSON cannot represent.
OtherValues ==
    { JNum("NaN"), JArr(<<JUndefined>>),
      JObj(<<<<"a", JUndefined>>, <<"b", JNum("1")>>>>) }

\* A text is a sequence of lexical tokens <<kind, lexeme>>.
Punct(c) == <<"punct", c>>
Word(w) == <<"word", w>>

IsDefinedMember(member) == member[2] # JUndefined

\* JSON.stringify, which the transport applies to the `json` field of the
\* message options: NaN and an undefined array item become null, an
\* undefined member is left out.
RECURSIVE JsonStringify(_)
RECURSIVE StringifyItems(_)
RECURSIVE StringifyMembers(_)

\* A stringify that writes every number as a string.
JsonStringifyQuotingNumbers(v) ==
    IF v[1] = "num" THEN <<<<"string", v[2][1]>>>>
    ELSE IF v[1] = "null" THEN <<Word("null")>>
    ELSE IF v[1] = "bool" THEN <<Word(v[2][1])>>
    ELSE IF v[1] = "str" THEN <<<<"string", v[2][1]>>>>
    ELSE IF v[1] = "arr" THEN <<Punct("[")>> \o StringifyItems(v[2]) \o <<Punct("]")>>
    ELSE IF v[1] = "obj"
    THEN <<Punct("{")>> \o StringifyMembers(SelectSeq(v[2], IsDefinedMember))
         \o <<Punct("}")>>
    ELSE <<>>

JsonStringify(v) ==
    IF v[1] = "null" THEN <<Word("null")>>
    ELSE IF v[1] = "bool" THEN <<Word(v[2][1])>>
    ELSE IF v[1] = "num"
    THEN IF v[2][1] = "NaN" THEN <<Word("null")>> ELSE <<<<"number", v[2][1]>>>>
    ELSE IF v[1] = "str" THEN <<<<"string", v[2][1]>>>>
    ELSE IF v[1] = "arr" THEN <<Punct("[")>> \o StringifyItems(v[2]) \o <<Punct("]")>>
    ELSE IF v[1] = "obj"
    THEN <<Punct("{")>> \o StringifyMembers(SelectSeq(v[2], IsDefinedMember))
         \o <<Punct("}")>>
    ELSE <<>>

StringifyItems(items) ==
    IF items = <<>> THEN <<>>
    ELSE (IF Head(items) = JUndefined THEN <<Word("null")>>
          ELSE JsonStringify(Head(items)))
         \o (IF Len(items) > 1 THEN <<Punct(",")>> \o StringifyItems(Tail(items))
             ELSE <<>>)

StringifyMembers(members) ==
    IF members = <<>> THEN <<>>
    ELSE <<<<"string", Head(members)[1]>>, Punct(":")>>
         \o JsonStringify(Head(members)[2])
         \o (IF Len(members) > 1
             THEN <<Punct(",")>> \o StringifyMembers(Tail(members))
             ELSE <<>>)

\* JSON.parse as a recursive descent over the tokens.  A parse step gives
\* [ok, val, next]: whether a value was read, the value, the next position.
ParseFailed == [ok |-> FALSE, val |-> JUndefined, next |-> 0]
Parsed(v, next) == [ok |-> TRUE, val |-> v, next |-> next]

RECURSIVE ParseValue(_, _)
RECURSIVE ParseItems(_, _, _)
RECURSIVE ParseMembers(_, _, _)

ParseValue(text, i) ==
    IF i > Len(text) THEN ParseFailed
    ELSE LET tok == text[i] IN
         IF tok[1] = "word"
         THEN IF tok[2] = "null" THEN Parsed(JNull, i + 1)
              ELSE IF tok[2] \in {"true", "false"} THEN Parsed(JBool(tok[2]), i + 1)
              ELSE ParseFailed
         ELSE IF tok[1] = "number" THEN Parsed(JNum(tok[2]), i + 1)
         ELSE IF tok[1] = "string" THEN Parsed(JStr(tok[2]), i + 1)
         ELSE IF tok = Punct("[")
         THEN IF i + 1 <= Len(text) /\ text[i + 1] = Punct("]")
              THEN Parsed(JArr(<<>>), i + 2)
              ELSE ParseItems(text, i + 1, <<>>)
         ELSE IF tok = Punct("{")
         THEN IF i + 1 <= Len(text) /\ text[i + 1] = Punct("}")
              THEN Parsed(JObj(<<>>), i + 2)
              ELSE ParseMembers(text, i + 1, <<>>)
         ELSE ParseFailed

\* The items of an array from position i on, after the items in acc.
ParseItems(text, i, acc) ==
    LET item == ParseValue(text, i) IN
    IF ~item.ok \/ item.next > Len(text) THEN ParseFailed
    ELSE IF text[item.next] = Punct(",")
    THEN ParseItems(text, item.next + 1, Append(acc, item.val))
    ELSE IF text[item.next] = Punct("]")
    THEN Parsed(JArr(Append(acc, item.val)), item.next + 1)
    ELSE ParseFailed

\* The members of an object from position i on, after the members in acc.
ParseMembers(text, i, acc) ==
    IF i + 1 > Len(text) THEN ParseFailed
    ELSE IF text[i][1] # "string" \/ text[i + 1] # Punct(":") THEN ParseFailed
    ELSE LET member == ParseValue(text, i + 2) IN
         IF ~member.ok \/ member.next > Len(text) THEN ParseFailed
         ELSE IF text[member.next] = Punct(",")
         THEN ParseMembers(text, member.next + 1,
                           Append(acc, <<text[i][2], member.val>>))
         ELSE IF text[member.next] = Punct("}")
         THEN Parsed(JObj(Append(acc, <<text[i][2], member.val>>)),
                     member.next + 1)
         ELSE ParseFailed

\* `JSON.parse(text)`: the value, or a SyntaxError (ok = FALSE).
JsonParse(text) ==
    LET r == ParseValue(text, 1) IN
    IF r.ok /\ r.next = Len(text) + 1
    THEN [ok |-> TRUE, val |-> r.val]
    ELSE [ok |-> FALSE, val |-> JUndefined]

\* `const CONTENT_TYPE_JSON = 'application/json'`
CONTENT_TYPE_JSON == "application/json"

\* Message attributes are a set of <<key, value>> pairs, one per key.
HasAttribute(attrs, key) == \E a \in attrs : a[1] = key
Attribute(attrs, key) ==
    IF HasAttribute(attrs, key)
    THEN (CHOOSE a \in attrs : a[1] = key)[2]
    ELSE "undefined"

\* `attributes[key] = value`
SetAttribute(attrs, key, value) ==
    {a \in attrs : a[1] # key} \cup {<<key, value>>}

\* The attributes a caller passes.
AttributeChoices ==
    { {}, {<<"contentType", "text/plain">>}, {<<"type", "regular">>},
      {<<"contentType", CONTENT_TYPE_JSON>>},
      {<<"contentType", "text/plain">>, <<"type", "regular">>} }

\* TPublishOptions as given to publishJson: absent, or with attributes
\* absent or present.
PublishOptionChoices ==
    Optional([attributes : Optional(AttributeChoices)])

\* A publishJson that keeps the contentType given by the caller.
MarkedAttributesKeepCaller(attrs) ==
    IF HasAttribute(attrs, "contentType") THEN attrs
    ELSE SetAttribute(attrs, "contentType", CONTENT_TYPE_JSON)

\* `options.attributes.contentType = CONTENT_TYPE_JSON`
MarkedAttributes(attrs) == SetAttribute(attrs, "contentType", CONTENT_TYPE_JSON)

\* publishJson up to the call of topic.publishMessage: the MessageOptions
\* `{ json: data, ...options }` after the defaults and the marker.
PublishJsonOptions(data, opts) ==
    LET given == OrDefault(opts, [attributes |-> {}])
        attrs == OrDefault(given.attributes, {}) IN
    [json |-> data, attributes |-> MarkedAttributes(attrs)]

\* The transport message made from MessageOptions with a `json` field.
WireOfJson(messageOptions) ==
    [data |-> JsonStringify(messageOptions.json),
     attributes |-> messageOptions.attributes]

NoSent == [op |-> "none", value |-> JUndefined, options |-> {}]
NoWire == [data |-> <<>>, attributes |-> {}, answer |-> "none"]

\* What the transport answers to topic.publishMessage: the message id the
\* broker assigned, or an error.
MessageIds == {"id-1", "id-2"}
PublishErrors == {"publish-error"}

\* The message handed to the transport, with the answer it got.
Answered(message, answer) ==
    [data |-> message.data, attributes |-> message.attributes,
     answer |-> answer]

\* A publisher that publishes a second time when the first publish failed.
PublishCallsRetrying(answer) ==
    IF answer \in PublishErrors
    THEN <<"publishMessage", "publishMessage">>
    ELSE <<"publishMessage">>

\* The calls publishJson / publishMessage make on the topic, whatever the
\* transport answers: one topic.publishMessage.
PublishCalls(answer) == <<"publishMessage">>

\* What the call gives its caller: `return this.#topic.publishMessage(opt)`
\* and `return messageId`; a rejection is not caught.
PublishResult(answer) == answer
NoGot == [delivered |-> FALSE, warned |-> FALSE, parsed |-> FALSE,
          handlerCalled |-> FALSE, arg |-> JUndefined, rejected |-> "none"]

\* publisher.publishJson(data, options), up to its return.
PublishJson(data, opts) ==
    /\ sent = NoSent
    /\ sent' = [op |-> "publishJson", value |-> data, options |-> opts]
    /\ \E answer \in MessageIds \cup PublishErrors :
        /\ wire' = Answered(WireOfJson(PublishJsonOptions(data, opts)), answer)
        /\ last' = Did("PublishJson", PublishResult(answer),
                       PublishCalls(answer), EmptyBag)
    /\ got' = got
    /\ UNCHANGED rvars
    /\ UNCHANGED <<subExists, subscriberClosed, listeners, listenCall,
                   closePc, completed, msgs, inflight>>
    /\ UNCHANGED cvars

\* Payloads given to publishMessage as `data: Buffer.from(text)`.
RawTexts ==
    { <<Word("regular"), Word("message")>>,
      <<Word("invalid-json-"), Punct("{")>>,
      <<Punct("{"), <<"string", "a">>, Punct(":"), <<"number", "1">>, Punct("}")>> }

\* publisher.publishMessage({data, attributes}): passed through as it is,
\* up to its return.
PublishMessage(text, attrs) ==
    /\ sent = NoSent
    /\ sent' = [op |-> "publishMessage", value |-> JUndefined, options |-> {}]
    /\ \E answer \in MessageIds \cup PublishErrors :
        /\ wire' = Answered([data |-> text, attributes |-> attrs], answer)
        /\ last' = Did("PublishMessage", PublishResult(answer),
                       PublishCalls(answer), EmptyBag)
    /\ got' = got
    /\ UNCHANGED rvars
    /\ UNCHANGED <<subExists, subscriberClosed, listeners, listenCall,
                   closePc, completed, msgs, inflight>>
    /\ UNCHANGED cvars

\* jsonMessageHandler of listenJson: warn when the marker is not the JSON
\* one, then parse the text in any case and call the user handler, or
\* reject with 'Failed to parse JSON'.
JsonMessageHandler(message) ==
    LET marked == Attribute(message.attributes, "contentType") = CONTENT_TYPE_JSON
        json == JsonParse(message.data) IN
    [delivered |-> TRUE,
     warned |-> ~marked,
     parsed |-> json.ok,
     handlerCalled |-> json.ok,
     arg |-> IF json.ok THEN json.val ELSE JUndefined,
     rejected |-> IF json.ok THEN "none" ELSE "parse"]

\* The message, which the broker accepted, is delivered to a listenJson
\* listener.
DeliverJson ==
    /\ sent # NoSent
    /\ wire.answer \in MessageIds
    /\ ~got.delivered
    /\ got' = JsonMessageHandler(wire)
    /\ UNCHANGED <<sent, wire>>
    /\ UNCHANGED rvars
    /\ UNCHANGED pvars
    /\ UNCHANGED cvars

(***************************************************************************)
(*        Subscriber (src/pubsub/pstore.ts) and the delivery callback      *)
(*        of setupSubscriptionWithHandlers (src/pubsub/base.ts)            *)
(***************************************************************************)

\* Number of handler sets installed on the subscription at one time.
MaxListeners == 2

\* The messages published to a Subscriber with any kind of listener: one
\* published with publishJson and one with publishMessage, whose payload is
\* not JSON text.
Messages == {"m-json", "m-text"}

\* The messages of an end-to-end JSON flow, all published with publishJson.
JsonMessages == {"m-json", "m-json-2", "m-json-3"}

\* What each message is on the transport.
WireOf(m) ==
    IF m = "m-text"
    THEN [data |-> <<Word("regular"), Word("message")>>,
          attributes |-> {<<"type", "regular">>}]
    ELSE WireOfJson(PublishJsonOptions(
            JObj(<<<<"id", JStr(m)>>, <<"message", JStr("a")>>>>), {}))

\* The messages for which `JSON.parse(message.data.toString())` returns.
ParsableMessages ==
    {m \in Messages \cup JsonMessages : JsonParse(WireOf(m).data).ok}

\* A wrapper for which every payload parses.
ParsesAlways(m) == TRUE

\* `const json = JSON.parse(text)` of the handler built by listenJson
\* returns for message m.
Parses(m) == m \in ParsableMessages

\* Number of 'message' callbacks whose user handler is running at one time.
MaxInFlight == 1

\* What a user message handler does when it is invoked: it returns a
\* promise, which later resolves or rejects, or it throws before returning.
HandlerBehaviours == {"returns", "throws"}

NoListenCall == [pc |-> "idle"]

\* A close() or delete() call is between its start and its end.
Closing == closePc # "idle"

\* A listen() that is let through although the Subscriber is closed.
ListenRejectedNever == FALSE

\* `if (this.#subscriberClosed) throw new Error(...)` of listen.
ListenRejected == subscriberClosed

\* listen(messageHandler, errorHandler?) and listenJson(...), which wraps the
\* handler and calls listen: up to `await this.#subscription.exists()`.  The
\* handlers given to the call are first used when they are installed.
Listen ==
    /\ listenCall.pc = "idle"
    /\ BagCardinality(listeners) < MaxListeners
    /\ IF ListenRejected
       THEN /\ listenCall' = listenCall
            /\ last' = Did("Listen", "closed-error", <<>>, EmptyBag)
       ELSE /\ listenCall' = [pc |-> "probing"]
            /\ last' = Did("Listen", "pending", <<"exists">>, EmptyBag)
    /\ UNCHANGED <<subExists, subscriberClosed, listeners, closePc,
                   completed, msgs, inflight>>
    /\ UNCHANGED rvars
    /\ UNCHANGED jvars
    /\ UNCHANGED cvars

\* A probe that always reports the subscription as existing.
ListenProbeFindsAlways == TRUE

\* `const [subExists] = await this.#subscription.exists()` of listen.
ListenProbeFinds == subExists

\* listen after the existence probe: raise, or setupSubscriptionWithHandlers
\* with the message handler (wrapped by listenJson when json) and the error
\* handler of the call (the default one unless custom).
ListenProbed(json, custom) ==
    /\ listenCall.pc = "probing"
    /\ listenCall' = NoListenCall
    /\ IF ListenProbeFinds
       THEN /\ listeners' = listeners (+) SetToBag({[json |-> json,
                                                      custom |-> custom]})
            /\ last' = Did("ListenProbed", "ok", <<>>, EmptyBag)
       ELSE /\ listeners' = listeners
            /\ last' = Did("ListenProbed", "missing-error", <<>>, EmptyBag)
    /\ UNCHANGED <<subExists, subscriberClosed, closePc, completed, msgs, inflight>>
    /\ UNCHANGED rvars
    /\ UNCHANGED jvars
    /\ UNCHANGED cvars

\* The transport finishes subscription.close(): it may emit 'close', on
\* which the close listener of setupSubscriptionWithHandlers removes all
\* listeners.
AfterCloseEvent(emitted) == IF emitted THEN EmptyBag ELSE listeners

\* A close() that sets the flag whether the transport close succeeded or not.
ClosedFlagAfterAttempt(ok) == TRUE

\* A close() that records whether its latest transport close succeeded.
ClosedFlagAfterLatest(ok) == ok

\* `await this.#subscription.close(); this.#subscriberClosed = true;`
ClosedFlagAfter(ok) == IF ok THEN TRUE ELSE subscriberClosed

\* A close() that also deletes the subscription.
CloseCallsWithDelete == <<"removeAllListeners", "close", "delete">>

\* The calls close() makes on the subscription object.
CloseCalls == <<"removeAllListeners", "close">>

\* close(): removeAllListeners, then the transport close is awaited.
Close ==
    /\ ~Closing
    /\ closePc' = "closing"
    /\ listeners' = EmptyBag
    /\ last' = Did("Close", "pending", CloseCalls, EmptyBag)
    /\ UNCHANGED <<subExists, subscriberClosed, listenCall, completed, msgs, inflight>>
    /\ UNCHANGED rvars
    /\ UNCHANGED jvars
    /\ UNCHANGED cvars

\* close() after the transport close: it succeeded or it raised.
CloseDone ==
    /\ closePc = "closing"
    /\ closePc' = "idle"
    /\ \E ok \in BOOLEAN, emitted \in BOOLEAN :
        /\ subscriberClosed' = ClosedFlagAfter(ok)
        /\ completed' = IF ok THEN completed \cup {"close"} ELSE completed
        /\ listeners' = AfterCloseEvent(ok /\ emitted)
        /\ last' = Did("CloseDone", IF ok THEN "ok" ELSE "error", <<>>, EmptyBag)
    /\ UNCHANGED <<subExists, listenCall, msgs, inflight>>
    /\ UNCHANGED rvars
    /\ UNCHANGED jvars
    /\ UNCHANGED cvars

\* A delete() that closes first whatever the closed flag says.
DeleteClosesFirstAlways == TRUE

\* A delete() that never closes first.
DeleteClosesFirstNever == FALSE

\* `if (!this.#subscriberClosed) await this.close();` of delete.
DeleteClosesFirst == ~subscriberClosed

\* delete(): close() when not closed yet, else straight to the existence probe.
Delete ==
    /\ ~Closing
    /\ IF DeleteClosesFirst
       THEN /\ closePc' = "delete-closing"
            /\ listeners' = EmptyBag
            /\ last' = Did("Delete", "pending", CloseCalls, EmptyBag)
       ELSE /\ closePc' = "delete-probing"
            /\ listeners' = listeners
            /\ last' = Did("Delete", "pending", <<"exists">>, EmptyBag)
    /\ UNCHANGED <<subExists, subscriberClosed, listenCall, completed, msgs, inflight>>
    /\ UNCHANGED rvars
    /\ UNCHANGED jvars
    /\ UNCHANGED cvars

\* delete() after the close() it awaited: on failure delete raises.
DeleteClosed ==
    /\ closePc = "delete-closing"
    /\ \E ok \in BOOLEAN, emitted \in BOOLEAN :
        /\ subscriberClosed' = ClosedFlagAfter(ok)
        /\ completed' = IF ok THEN completed \cup {"close-in-delete"} ELSE completed
        /\ listeners' = AfterCloseEvent(ok /\ emitted)
        /\ closePc' = IF ok THEN "delete-probing" ELSE "idle"
        /\ last' = IF ok THEN Did("DeleteClosed", "pending", <<"exists">>, EmptyBag)
                         ELSE Did("DeleteClosed", "error", <<>>, EmptyBag)
    /\ UNCHANGED <<subExists, listenCall, msgs, inflight>>
    /\ UNCHANGED rvars
    /\ UNCHANGED jvars
    /\ UNCHANGED cvars

\* delete() after its existence probe: delete the subscription, or return.
DeleteProbed ==
    /\ closePc = "delete-probing"
    /\ IF subExists
       THEN /\ closePc' = "delete-deleting"
            /\ completed' = completed
            /\ last' = Did("DeleteProbed", "pending", <<"delete">>, EmptyBag)
       ELSE /\ closePc' = "idle"
            /\ completed' = completed \cup {"delete"}
            /\ last' = Did("DeleteProbed", "ok", <<>>, EmptyBag)
    /\ UNCHANGED <<subExists, subscriberClosed, listeners, listenCall, msgs, inflight>>
    /\ UNCHANGED rvars
    /\ UNCHANGED jvars
    /\ UNCHANGED cvars

\* delete() after the transport delete, which raises when the subscription
\* has been deleted in the meantime.
DeleteDone ==
    /\ closePc = "delete-deleting"
    /\ closePc' = "idle"
    /\ subExists' = FALSE
    /\ IF subExists
       THEN /\ completed' = completed \cup {"delete"}
            /\ last' = Did("DeleteDone", "ok", <<>>, EmptyBag)
       ELSE /\ completed' = completed
            /\ last' = Did("DeleteDone", "error", <<>>, EmptyBag)
    /\ UNCHANGED <<subscriberClosed, listeners, listenCall, msgs, inflight>>
    /\ UNCHANGED rvars
    /\ UNCHANGED jvars
    /\ UNCHANGED cvars

\* Another owner of the subscription deletes it on the transport.
DeletedElsewhere ==
    /\ subExists
    /\ subExists' = FALSE
    /\ last' = Did("DeletedElsewhere", "ok", <<>>, EmptyBag)
    /\ UNCHANGED <<subscriberClosed, listeners, listenCall, closePc,
                   completed, msgs, inflight>>
    /\ UNCHANGED rvars
    /\ UNCHANGED jvars
    /\ UNCHANGED cvars

\* The messages some callback is still working on.
Outstanding == {inv.msg : inv \in BagToSet(inflight)}

\* Publisher.publishJson / publishMessage puts message m on the topic.
Publish(m) ==
    /\ m \notin msgs \cup Outstanding
    /\ msgs' = msgs \cup {m}
    /\ last' = Did("Publish", "ok", <<"publish">>, EmptyBag)
    /\ UNCHANGED <<subExists, subscriberClosed, listeners, listenCall,
                   closePc, completed, inflight>>
    /\ UNCHANGED rvars
    /\ UNCHANGED jvars
    /\ UNCHANGED cvars

\* ---- the 'message' callback of setupSubscriptionWithHandlers ----

\* What the error handler in use can do: a supplied one returns or throws,
\* the default one only logs.
ErrorHandlerBehaviours(l) ==
    IF l.custom THEN {"returns", "throws"} ELSE {"returns"}

\* The callback when it is entered with message m for listener l.
NewInvocation(l, m) ==
    [listener |-> l, msg |-> m, pc |-> "awaiting", userCalled |-> FALSE,
     userOutcome |-> "none", acks |-> 0, nacks |-> 0, errCalls |-> 0,
     errMessage |-> "none", report |-> "none", escaped |-> FALSE]

\* A callback that drops the outcome of its handler once the Subscriber is
\* closed.
AfterHandlerSilentWhenClosed(inv, outcome, report, eh) ==
    IF subscriberClosed
    THEN [inv EXCEPT !.pc = "done"]
    ELSE IF outcome = "fulfilled"
    THEN [inv EXCEPT !.pc = "done", !.acks = @ + 1]
    ELSE [inv EXCEPT !.pc = "done", !.nacks = @ + 1,
                     !.errCalls = @ + 1, !.errMessage = inv.msg,
                     !.report = report, !.escaped = (eh = "throws")]

\* A callback that acks after the try/catch, whatever happened.
AfterHandlerAckAlways(inv, outcome, report, eh) ==
    IF outcome = "fulfilled"
    THEN [inv EXCEPT !.pc = "done", !.acks = @ + 1]
    ELSE [inv EXCEPT !.pc = "done", !.nacks = @ + 1, !.acks = @ + 1,
                     !.errCalls = @ + 1, !.errMessage = inv.msg,
                     !.report = report, !.escaped = (eh = "throws")]

\* A callback that forgets the ack after a handler that succeeded.
AfterHandlerNeverAcks(inv, outcome, report, eh) ==
    IF outcome = "fulfilled"
    THEN [inv EXCEPT !.pc = "done"]
    ELSE [inv EXCEPT !.pc = "done", !.nacks = @ + 1,
                     !.errCalls = @ + 1, !.errMessage = inv.msg,
                     !.report = report, !.escaped = (eh = "throws")]

\* The callback once `await messageHandler(message)` has settled: ack, or
\* nack and errHandler(error, message); an error handler that throws makes
\* the async callback reject.  errMessage is the message given to the error
\* handler.
AfterHandler(inv, outcome, report, eh) ==
    IF outcome = "fulfilled"
    THEN [inv EXCEPT !.pc = "done", !.acks = @ + 1]
    ELSE [inv EXCEPT !.pc = "done", !.nacks = @ + 1,
                     !.errCalls = @ + 1, !.errMessage = inv.msg,
                     !.report = report, !.escaped = (eh = "throws")]

\* Entering the callback: what happens before control returns to the
\* transport.  A plain handler that throws is caught at once.  The handler
\* built by listenJson rejects when JSON.parse throws, and also when the user
\* handler throws inside its try block; such a rejection is handled before
\* any other event.
EnterCallback(l, m, beh, eh) ==
    LET inv == NewInvocation(l, m) IN
    IF l.json /\ ~Parses(m)
    THEN AfterHandler(inv, "rejected", "parse", eh)
    ELSE LET called == [inv EXCEPT !.userCalled = TRUE] IN
         IF beh = "throws"
         THEN AfterHandler([called EXCEPT !.userOutcome = beh], "rejected",
                           IF l.json THEN "parse" ELSE "handler", eh)
         ELSE called

\* The installed listeners one after the other, each kind as often as it
\* is installed.
RECURSIVE ListenerSeq(_)
ListenerSeq(bag) ==
    IF bag = EmptyBag THEN <<>>
    ELSE LET l == CHOOSE x \in BagToSet(bag) : TRUE IN
         <<l>> \o ListenerSeq(bag (-) SetToBag({l}))

\* What entering the callback of listener l with message m can lead to,
\* over what the user handler and the error handler do.
Entered(l, m) ==
    {EnterCallback(l, m, beh, eh) :
        beh \in HandlerBehaviours, eh \in ErrorHandlerBehaviours(l)}

\* The invocations started by one 'message' event, one per installed
\* listener: every sequence they can form.
RECURSIVE Emit(_, _)
Emit(ls, m) ==
    IF ls = <<>> THEN {<<>>}
    ELSE {<<inv>> \o rest : inv \in Entered(Head(ls), m), rest \in Emit(Tail(ls), m)}

IsAwaiting(inv) == inv.pc = "awaiting"
IsDone(inv) == inv.pc = "done"

\* The bag of the elements of a sequence.
RECURSIVE BagOf(_)
BagOf(q) == IF q = <<>> THEN EmptyBag ELSE SetToBag({Head(q)}) (+) BagOf(Tail(q))

\* The transport delivers message m, which is not acked and not being
\* handled: it emits 'message' on the subscription.
Deliver(m) ==
    /\ subExists
    /\ listeners # EmptyBag
    /\ m \notin Outstanding
    /\ \E started \in Emit(ListenerSeq(listeners), m) :
        /\ BagCardinality(inflight) + Len(SelectSeq(started, IsAwaiting))
                <= MaxInFlight
        /\ inflight' = inflight (+) BagOf(SelectSeq(started, IsAwaiting))
        /\ last' = Did("Deliver", "ok", <<>>, BagOf(SelectSeq(started, IsDone)))
    /\ UNCHANGED <<subExists, subscriberClosed, listeners, listenCall,
                   closePc, completed, msgs>>
    /\ UNCHANGED rvars
    /\ UNCHANGED jvars
    /\ UNCHANGED cvars

\* ---- the 'error' listener of setupSubscriptionWithHandlers ----

\* A setup that adds an 'error' listener only for a supplied error handler.
HasErrorListenerIfSupplied(l) == l.custom

\* `const errHandler = errorHandler ?? ((error, message) => {...})` and
\* `subscription.on('error', errHandler)`: every handler set has an 'error'
\* listener, the supplied error handler or the default logging one.
HasErrorListener(l) == TRUE

\* errHandler(error) called for an 'error' event: no message is given; the
\* error handler is the one of handler set l, which also gets the failures
\* of its message handler.
ErrorHandled(l, eh) ==
    [NewInvocation(l, "none") EXCEPT !.pc = "done", !.errCalls = 1,
                                     !.report = "transport",
                                     !.escaped = (eh = "throws")]

\* The error handlers called by one 'error' event, in any order of the
\* listeners: a handler that throws ends the emit, and the listeners after
\* it are not called.
RECURSIVE ErrorEmit(_)
ErrorEmit(bag) ==
    IF bag = EmptyBag THEN {EmptyBag}
    ELSE UNION {
            {SetToBag({ErrorHandled(l, "returns")}) (+) rest :
                rest \in ErrorEmit(bag (-) SetToBag({l}))}
            \cup {SetToBag({ErrorHandled(l, eh)}) :
                    eh \in ErrorHandlerBehaviours(l) \ {"returns"}}
          : l \in BagToSet(bag) }

\* The handler sets whose 'error' listener is on the subscription.
RECURSIVE ErrorListeners(_)
ErrorListeners(bag) ==
    IF bag = EmptyBag THEN EmptyBag
    ELSE LET l == CHOOSE x \in BagToSet(bag) : TRUE
             rest == ErrorListeners(bag (-) SetToBag({l})) IN
         IF HasErrorListener(l) THEN SetToBag({l}) (+) rest ELSE rest

\* The transport emits 'error' on a subscription that is listened to: a
\* StatusError that belongs to no message.  Without an 'error' listener the
\* emitter throws the error itself.
ErrorEvent ==
    /\ listeners # EmptyBag
    /\ IF ErrorListeners(listeners) = EmptyBag
       THEN last' = Did("ErrorEvent", "unhandled", <<>>, EmptyBag)
       ELSE \E called \in ErrorEmit(ErrorListeners(listeners)) :
                last' = Did("ErrorEvent", "ok", <<>>, called)
    /\ UNCHANGED <<subExists, subscriberClosed, listeners, listenCall,
                   closePc, completed, msgs, inflight>>
    /\ UNCHANGED rvars
    /\ UNCHANGED jvars
    /\ UNCHANGED cvars

\* The promise returned by the user handler settles: it resolves or rejects.
\* An acked message leaves the subscription, a nacked one stays.
HandlerSettles(inv) ==
    /\ \E settled \in {"resolves", "rejects"},
          eh \in ErrorHandlerBehaviours(inv.listener) :
        LET done == AfterHandler([inv EXCEPT !.userOutcome = settled],
                        IF settled = "resolves" THEN "fulfilled" ELSE "rejected",
                        "handler", eh)
        IN /\ last' = Did("HandlerSettles", "ok", <<>>, SetToBag({done}))
           /\ msgs' = IF done.acks > 0 THEN msgs \ {inv.msg} ELSE msgs
    /\ inflight' = inflight (-) SetToBag({inv})
    /\ UNCHANGED <<subExists, subscriberClosed, listeners, listenCall,
                   closePc, completed>>
    /\ UNCHANGED rvars
    /\ UNCHANGED jvars
    /\ UNCHANGED cvars

(***************************************************************************)
(*     PubSubService.createTopic / createSubscription (src/pubsub/pstore.ts) *)
(***************************************************************************)

\* Number of create calls made for one kind of resource.
MaxProvisionCalls == 2

\* The processes that call createTopic / createSubscription at the same time.
Callers == {"a", "b"}

\* createTopic(name) and createSubscription(topic, name), for one name each.
Resources == {"topic", "subscription"}

\* `const [exists] = await resource.exists()` answers this.
Exists(r) == IF r = "topic" THEN topicExists ELSE subExists

\* Duration.from({seconds: n})
DurationFrom(n) == [seconds |-> n, nanos |-> 0]

\* The retry setting generateCallOptions installs, by its retryCodes:
\* ABORTED, CANCELLED, DEADLINE_EXCEEDED, INTERNAL, RESOURCE_EXHAUSTED,
\* UNAVAILABLE, UNKNOWN.
PublishRetrySetting == [retryCodes |-> {10, 1, 4, 13, 8, 14, 2}]

\* A retry setting supplied by a caller: UNAVAILABLE only.
CallerRetrySetting == [retryCodes |-> {14}]

\* CallOptions values a caller passes as gaxOpts.
CallOptionChoices == [retry : Optional({CallerRetrySetting})]

\* generateCallOptions(options?): a copy, with the default retry setting
\* when the caller's has none.
GenerateCallOptions(callOptions) ==
    LET copy == IF callOptions = {} THEN [retry |-> {}]
                  ELSE OrDefault(callOptions, [retry |-> {}]) IN
    IF copy.retry = {}
    THEN [copy EXCEPT !.retry = {PublishRetrySetting}]
    ELSE copy

\* Retry policies a caller passes: an empty object, a minimum only, both.
RetryPolicyChoices ==
    { [minimumBackoff |-> {}, maximumBackoff |-> {}],
      [minimumBackoff |-> {DurationFrom(5)}, maximumBackoff |-> {}],
      [minimumBackoff |-> {DurationFrom(10)},
       maximumBackoff |-> {DurationFrom(600)}] }

\* The retry policy generateCreateSubscriptionOptions installs.
DefaultRetryPolicy ==
    [minimumBackoff |-> {DurationFrom(1)}, maximumBackoff |-> {DurationFrom(60)}]

\* A default policy whose bounds are swapped.
DefaultedRetryPolicySwapped(retryPolicy) ==
    IF retryPolicy = {}
    THEN {[minimumBackoff |-> {DurationFrom(60)},
           maximumBackoff |-> {DurationFrom(1)}]}
    ELSE retryPolicy

\* `if (!result.retryPolicy) result.retryPolicy = {...}`
DefaultedRetryPolicy(retryPolicy) ==
    IF retryPolicy = {} THEN {DefaultRetryPolicy} ELSE retryPolicy

\* generateCreateSubscriptionOptions(options?): a copy, with the default
\* retry policy and the default gaxOpts where the caller's has none.
GenerateCreateSubscriptionOptions(createOptions) ==
    LET copy == OrDefault(createOptions, [retryPolicy |-> {}, gaxOpts |-> {}]) IN
    [retryPolicy |-> DefaultedRetryPolicy(copy.retryPolicy),
     gaxOpts |-> IF copy.gaxOpts = {}
                 THEN {GenerateCallOptions(copy.gaxOpts)}
                 ELSE copy.gaxOpts]

\* The options a caller gives to createTopic (PublishOptions, of which only
\* gaxOpts is used) and to createSubscription (CreateSubscriptionOptions).
OptionChoices(r) ==
    IF r = "topic"
    THEN Optional([gaxOpts : Optional(CallOptionChoices)])
    ELSE Optional([retryPolicy : Optional(RetryPolicyChoices),
                   gaxOpts : Optional(CallOptionChoices)])

\* The options sent with the transport create call.
CreateOptionsFor(r, opts) ==
    IF r = "topic"
    THEN GenerateCallOptions(OrDefault(opts, [gaxOpts |-> {}]).gaxOpts)
    ELSE GenerateCreateSubscriptionOptions(opts)

\* No call in progress.  A call in progress has the options it was given
\* and, once it sent a create request, the options sent with it.
NoCall == [pc |-> "idle", res |-> "none", options |-> {}, createOpts |-> {}]

\* The create calls that have not returned yet.
InProgress(r) == {c \in Callers : prov[c].pc # "idle" /\ prov[c].res = r}

\* A caller enters createTopic / createSubscription and sends the probe.
ProvisionCall(c, r) ==
    /\ prov[c].pc = "idle"
    /\ Len(log[r]) + Cardinality(InProgress(r)) < MaxProvisionCalls
    /\ \E opts \in OptionChoices(r) :
        prov' = [prov EXCEPT ![c] = [pc |-> "probing", res |-> r,
                                     options |-> opts, createOpts |-> {}]]
    /\ overlap' = IF InProgress(r) # {} THEN overlap \cup {r} ELSE overlap
    /\ last' = Did("ProvisionCall", "pending", <<"exists">>, EmptyBag)
    /\ UNCHANGED <<topicExists, log>>
    /\ UNCHANGED <<subExists, subscriberClosed, listeners, listenCall,
                   closePc, completed, msgs, inflight>>
    /\ UNCHANGED rvars
    /\ UNCHANGED jvars

\* Failures of the transport itself: PERMISSION_DENIED, UNAVAILABLE.
TransportFailures == {"permission-denied-error", "unavailable-error"}

\* The gRPC status code of an error answer.
GrpcCode(err) ==
    CASE err = "not-found-error" -> 5
      [] err = "already-exists-error" -> 6
      [] err = "permission-denied-error" -> 7
      [] err = "unavailable-error" -> 14

\* The retryCodes sent with the create request of a call; none when the
\* caller's own gaxOpts name no retry setting (createSubscription keeps such
\* gaxOpts as they are).
RetryCodesSent(call) ==
    LET sentOpts == OrDefault(call.createOpts, NoCall)
        callOptions == IF call.res = "topic" THEN sentOpts
                       ELSE OrDefault(sentOpts.gaxOpts, [retry |-> {}]) IN
    OrDefault(callOptions.retry, [retryCodes |-> {}]).retryCodes

\* The client library retries an error of the create request by itself when
\* its code is among the retryCodes sent; the provisioner does not see it.
LibraryRetries(err, call) == GrpcCode(err) \in RetryCodesSent(call)

\* A provisioner that catches an error and returns undefined.
PropagatedAsUndefined(answer) ==
    IF answer \in {"found", "created"} THEN answer ELSE "undefined"

\* How a call ends for an answer of the transport: there is no try/catch
\* around `await topic.exists()` or the create call, so an error answer
\* rejects the call with that error.
Propagated(answer) == answer

\* A probe that always finds the resource.
ProbeFindsAlways(r) == TRUE

\* `if (topicExists) return topic; else ... create` (and the same for a
\* subscription): what the probe found.
ProbeFinds(r) == Exists(r)

\* The probe returns: the existing handle is returned, or the create call
\* is sent; or the probe fails with one of the failures the transport has.
ProvisionProbed(c, failures) ==
    /\ prov[c].pc = "probing"
    /\ LET r == prov[c].res IN
        \/ \E err \in failures :
             /\ prov' = [prov EXCEPT ![c] = NoCall]
             /\ log' = [log EXCEPT ![r] = Append(@, Propagated(err))]
             /\ last' = Did("ProvisionProbed", Propagated(err), <<>>, EmptyBag)
        \/ IF ProbeFinds(r)
           THEN /\ prov' = [prov EXCEPT ![c] = NoCall]
                /\ log' = [log EXCEPT ![r] = Append(@, "found")]
                /\ last' = Did("ProvisionProbed", "handle", <<>>, EmptyBag)
           ELSE /\ prov' = [prov EXCEPT ![c].pc = "creating",
                                        ![c].createOpts =
                                           {CreateOptionsFor(r, prov[c].options)}]
                /\ log' = log
                /\ last' = Did("ProvisionProbed", "pending", <<"create">>, EmptyBag)
    /\ UNCHANGED <<topicExists, overlap>>
    /\ UNCHANGED <<subExists, subscriberClosed, listeners, listenCall,
                   closePc, completed, msgs, inflight>>
    /\ UNCHANGED rvars
    /\ UNCHANGED jvars

\* What a working transport answers to a create request: ALREADY_EXISTS for
\* a resource that exists, NOT_FOUND for a subscription on a missing topic.
CreateAnswer(r) ==
    IF Exists(r) THEN "already-exists-error"
    ELSE IF r = "subscription" /\ ~topicExists THEN "not-found-error"
    ELSE "created"

\* `await this.client.createTopic(...)` / `await topic.createSubscription(...)`
\* returns or raises, also with a failure of the transport that the client
\* library does not retry; nothing in the caller catches the error.
ProvisionCreated(c, failures) ==
    /\ prov[c].pc = "creating"
    /\ LET r == prov[c].res IN
       \E answer \in {CreateAnswer(r)}
            \cup {err \in failures : ~LibraryRetries(err, prov[c])} :
        /\ prov' = [prov EXCEPT ![c] = NoCall]
        /\ log' = [log EXCEPT ![r] = Append(@, Propagated(answer))]
        /\ topicExists' = (topicExists \/ (r = "topic" /\ answer = "created"))
        /\ subExists' = (subExists \/ (r = "subscription" /\ answer = "created"))
        /\ last' = Did("ProvisionCreated",
                       IF answer = "created" THEN "handle" ELSE Propagated(answer),
                       <<>>, EmptyBag)
    /\ UNCHANGED overlap
    /\ UNCHANGED <<subscriberClosed, listeners, listenCall,
                   closePc, completed, msgs, inflight>>
    /\ UNCHANGED rvars
    /\ UNCHANGED jvars

\* ---- PubSubService.createSubscriber ----

\* createSubscription has just returned a subscription handle.
HandleReturned ==
    /\ last.step \in {"ProvisionProbed", "ProvisionCreated"}
    /\ last.ret = "handle"

\* createSubscriber(topic, subscriptionName, options?) with a Topic object,
\* called once the Subscriber in use was closed or deleted and none of its
\* calls is under way: it goes straight to createSubscription.
CreateSubscriber ==
    /\ completed # {}
    /\ closePc = "idle"
    /\ listenCall.pc = "idle"
    /\ ~HandleReturned
    /\ ProvisionCall("a", "subscription")

\* A Subscriber that is born closed.
SubscriberClosedInitiallyTrue == TRUE

\* `#subscriberClosed = false` of a new Subscriber.
SubscriberClosedInitially == FALSE

\* `return new Subscriber(subscription)`: from here on the Subscriber of the
\* model is the new instance, on the Subscription object that
\* createSubscription returned, which has no listener yet.
NewSubscriber ==
    /\ HandleReturned
    /\ subscriberClosed' = SubscriberClosedInitially
    /\ listeners' = EmptyBag
    /\ listenCall' = NoListenCall
    /\ closePc' = "idle"
    /\ completed' = {}
    /\ last' = Did("NewSubscriber", "subscriber", <<>>, EmptyBag)
    /\ UNCHANGED <<subExists, msgs, inflight>>
    /\ UNCHANGED rvars
    /\ UNCHANGED jvars
    /\ UNCHANGED cvars

(***************************************************************************)
(*              getPubSubLoggerPayload  (src/pubsub/base.ts)               *)
(***************************************************************************)

\* Names of the transport objects and ids of messages in a request.
TopicNames == {"projects/p/topics/t1", "projects/p/topics/t2"}
SubscriptionNames == {"projects/p/subscriptions/s1"}

\* Texts that an error carries, as its message or as its gRPC details.
ErrorTexts == {"deadline exceeded", "Test error"}

\* `Subscription.topic?: Topic | string`: a Topic object or its name.
TopicRefs == [kind : {"Topic", "string"}, name : TopicNames]

\* `typeof t === 'string' ? t : t?.name`, for an optional Topic | string
TopicNameOf(t) == {ref.name : ref \in t}

\* The Subscription objects of a request: with or without their topic.
RequestSubscriptions ==
    [name : SubscriptionNames,
     topic : {{}, {[kind |-> "Topic", name |-> "projects/p/topics/t1"]},
              {[kind |-> "string", name |-> "projects/p/topics/t1"]}}]

\* The Message objects of a request; a contentType or an ackId can be ''.
RequestMessages ==
    [id : {"id-1"},
     contentType : Optional({"", "application/json"}),
     ackId : {"", "ack-1"}]

\* grpc Metadata: per key its values, each a string or a Buffer of bytes.
MetadataChoices ==
    { <<>>,
      <<[key |-> "retry-info", values |-> <<<<"string", "1s">>>>]>>,
      <<[key |-> "trace-bin", values |-> <<<<"Buffer", <<1, 2>>>>>>]>> }

\* What JSON.stringify and JSON.parse make of one Metadata value: a string
\* stays a string, a Buffer becomes the object {type: 'Buffer', data: [..]}.
MetadataValueJson(v) ==
    IF v[1] = "Buffer"
    THEN <<"object", <<"type", <<"string", "Buffer">>>>, <<"data", v[2]>>>>
    ELSE v

\* `JSON.parse(safeStringify(error.metadata.toJSON()))`
MetadataJson(metadata) ==
    [i \in DOMAIN metadata |->
        [key |-> metadata[i].key,
         values |-> [j \in DOMAIN metadata[i].values |->
                        MetadataValueJson(metadata[i].values[j])]]]

\* The errors of a request: an Error, or a StatusError of the client
\* library, which adds code, details and metadata to the Error (`grpc`, {}
\* for an Error that has none of them).
PlainErrors == [class : {"Error"}, message : ErrorTexts, grpc : {{}}]

StatusErrors ==
    [class : {"StatusError"}, message : ErrorTexts,
     grpc : {{g} : g \in [code : {0, 4}, details : ErrorTexts,
                          metadata : MetadataChoices]}]

\* `error instanceof StatusError`, for the optional error of a request
IsStatusError(error) == \E e \in error : e.class = "StatusError"

\* IPubSubLoggerPayloadRequest
PayloadRequests ==
    [topic : Optional({ref \in TopicRefs : ref.name = "projects/p/topics/t2"}),
     subscription : Optional(RequestSubscriptions),
     message : Optional(RequestMessages),
     messageId : Optional({"", "id-2"}),
     error : Optional(PlainErrors \cup StatusErrors)]

\* The fields of IPubSubLoggerPayload
PayloadFields ==
    {"subscriptionName", "topicName", "messageId", "messageContentType",
     "messageAckId", "grpcErrorStatus", "grpcErrorMetadata",
     "grpcErrorDetails"}

\* `if (x) ...`: a string that is given and is not ''.
Truthy(x) == x \ {""}

\* getPubSubLoggerPayload(input): the payload wrapped in KV.of('PubSubInfo', ..),
\* a field being {} when it is not set.
GetPubSubLoggerPayload(input) ==
    LET sub == input.subscription
        subTopic == UNION {TopicNameOf(s.topic) : s \in sub}
        status == IsStatusError(input.error)
        grpc == UNION {e.grpc : e \in input.error}
    IN  [subscriptionName |-> {s.name : s \in sub},
         topicName |->
            IF sub # {} THEN Truthy(subTopic) ELSE TopicNameOf(input.topic),
         messageId |->
            IF input.message # {} THEN {m.id : m \in input.message}
            ELSE Truthy(input.messageId),
         messageContentType |->
            Truthy(UNION {m.contentType : m \in input.message}),
         messageAckId |-> Truthy({m.ackId : m \in input.message}),
         grpcErrorStatus |->
            IF status THEN {g.code : g \in grpc} ELSE {},
         grpcErrorMetadata |->
            IF status THEN {MetadataJson(g.metadata) : g \in grpc}
            ELSE {},
         grpcErrorDetails |->
            IF status THEN {g.details : g \in grpc} ELSE {}]

\* A call of getPubSubLoggerPayload, by the default error handler or by user
\* code: the request is kept in `sent`, the payload returned in `last`.
LoggerPayload(input) ==
    /\ sent' = [op |-> "getPubSubLoggerPayload", input |-> input]
    /\ last' = Did("LoggerPayload", GetPubSubLoggerPayload(input), <<>>,
                   EmptyBag)
    /\ UNCHANGED <<wire, got>>
    /\ UNCHANGED <<subExists, subscriberClosed, listeners, listenCall,
                   closePc, completed, msgs, inflight>>
    /\ UNCHANGED rvars
    /\ UNCHANGED cvars

(***************************************************************************)
(*                          The specifications                             *)
(***************************************************************************)

\* retry has not been called: the state of its variables under Spec.
RetryIdle ==
    /\ options = [maxRetry |-> {}, retryOnUndefined |-> {},
                  retryOnAllErrors |-> {}, shouldRetry |-> {}]
    /\ counter = 0
    /\ outcomes = <<>>
    /\ waits = 0
    /\ rpc = "idle"
    /\ result = "none"

\* No createTopic / createSubscription call was made; the topic exists.
ProvisionIdle ==
    /\ topicExists = TRUE
    /\ prov = [c \in Callers |-> NoCall]
    /\ log = [r \in Resources |-> <<>>]
    /\ overlap = {}

\* No message went through the JSON path.
JsonIdle ==
    /\ sent = NoSent
    /\ wire = NoWire
    /\ got = NoGot

\* A Subscriber constructed on an existing subscription; nothing published.
PubSubInit ==
    /\ subExists = TRUE
    /\ subscriberClosed = FALSE
    /\ listeners = EmptyBag
    /\ listenCall = NoListenCall
    /\ closePc = "idle"
    /\ completed = {}
    /\ msgs = {}
    /\ inflight = EmptyBag
    /\ last = Did("Init", "ok", <<>>, EmptyBag)

RetryInit ==
    /\ options \in RetryOptions
    /\ counter = 0
    /\ outcomes = <<>>
    /\ waits = 0
    /\ rpc = "idle"
    /\ result = "none"
    /\ PubSubInit
    /\ ProvisionIdle
    /\ JsonIdle

RetryNext ==
    \/ RetryCall
    \/ RetryAttempt
    \/ RetryExhausted

RetrySpec == RetryInit /\ [][RetryNext]_vars

Init == PubSubInit /\ RetryIdle /\ ProvisionIdle /\ JsonIdle

Next ==
    \/ Listen
    \/ \E json \in BOOLEAN, custom \in BOOLEAN : ListenProbed(json, custom)
    \/ Close
    \/ CloseDone
    \/ Delete
    \/ DeleteClosed
    \/ DeleteProbed
    \/ DeleteDone
    \/ DeletedElsewhere
    \/ \E m \in Messages : Publish(m)
    \/ \E m \in msgs : Deliver(m)
    \/ \E inv \in BagToSet(inflight) : HandlerSettles(inv)

Spec == Init /\ [][Next]_vars

\* A Subscriber, its listen / close / delete calls and the 'error' events
\* of its transport, with no message published.
LifecycleInit == Init

LifecycleNext ==
    \/ Listen
    \/ \E json \in BOOLEAN, custom \in BOOLEAN : ListenProbed(json, custom)
    \/ Close
    \/ CloseDone
    \/ Delete
    \/ DeleteClosed
    \/ DeleteProbed
    \/ DeleteDone
    \/ DeletedElsewhere
    \/ ErrorEvent

LifecycleSpec == LifecycleInit /\ [][LifecycleNext]_vars

\* The transport before any create call: a subscription needs its topic.
ProvisionInit ==
    /\ topicExists \in BOOLEAN
    /\ subExists \in BOOLEAN
    /\ subExists => topicExists
    /\ prov = [c \in Callers |-> NoCall]
    /\ log = [r \in Resources |-> <<>>]
    /\ overlap = {}
    /\ subscriberClosed = FALSE
    /\ listeners = EmptyBag
    /\ listenCall = NoListenCall
    /\ closePc = "idle"
    /\ completed = {}
    /\ msgs = {}
    /\ inflight = EmptyBag
    /\ last = Did("Init", "ok", <<>>, EmptyBag)
    /\ RetryIdle
    /\ JsonIdle

ProvisionNext ==
    \/ \E c \in Callers, r \in Resources : ProvisionCall(c, r)
    \/ \E c \in Callers : ProvisionProbed(c, {})
    \/ \E c \in Callers : ProvisionCreated(c, {})

ProvisionSpec == ProvisionInit /\ [][ProvisionNext]_vars

\* One caller of createTopic / createSubscription on a transport that can
\* fail.
FailingInit == ProvisionInit

FailingNext ==
    \/ \E r \in Resources : ProvisionCall("a", r)
    \/ ProvisionProbed("a", TransportFailures)
    \/ ProvisionCreated("a", TransportFailures)

FailingSpec == FailingInit /\ [][FailingNext]_vars

\* One caller that uses a Subscriber, closes or deletes it, and then asks
\* createSubscriber for the same topic object and subscription name, one
\* call after the other.
ReplaceInit == Init

\* The caller is not inside createSubscriber.
OutsideCreateSubscriber == prov["a"].pc = "idle" /\ ~HandleReturned

ReplaceNext ==
    \/ OutsideCreateSubscriber /\ Listen
    \/ \E json \in BOOLEAN, custom \in BOOLEAN : ListenProbed(json, custom)
    \/ OutsideCreateSubscriber /\ Close
    \/ CloseDone
    \/ OutsideCreateSubscriber /\ Delete
    \/ DeleteClosed
    \/ DeleteProbed
    \/ DeleteDone
    \/ CreateSubscriber
    \/ ProvisionProbed("a", {})
    \/ ProvisionCreated("a", {})
    \/ NewSubscriber

ReplaceSpec == ReplaceInit /\ [][ReplaceNext]_vars

\* A run of retry whose action settles every time it is invoked and whose
\* delay timer fires: each iteration that can be taken is taken.
TerminatingInit == RetryInit

TerminatingNext == RetryNext

TerminatingSpec ==
    /\ TerminatingInit
    /\ [][TerminatingNext]_vars
    /\ WF_vars(RetryAttempt)
    /\ WF_vars(RetryExhausted)

JsonInit == JsonIdle /\ PubSubInit /\ RetryIdle /\ ProvisionIdle

JsonNext ==
    \/ \E data \in JsonValues \cup OtherValues, opts \in PublishOptionChoices :
            PublishJson(data, opts)
    \/ \E text \in RawTexts, attrs \in AttributeChoices :
            PublishMessage(text, attrs)
    \/ DeliverJson

JsonSpec == JsonInit /\ [][JsonNext]_vars

\* One call of getPubSubLoggerPayload, with any request.
PayloadInit == Init

PayloadNext ==
    /\ sent = NoSent
    /\ \E input \in PayloadRequests : LoggerPayload(input)

PayloadSpec == PayloadInit /\ [][PayloadNext]_vars

\* The end-to-end JSON flow: a fresh subscription, one listenJson call whose
\* handler returns a promise that resolves, and publishJson calls made once
\* the listener is installed.
FlowInit == Init

FlowListen == listeners = EmptyBag /\ Listen

FlowListenProbed == \E custom \in BOOLEAN : ListenProbed(TRUE, custom)

FlowPublish(m) == listeners # EmptyBag /\ Publish(m)

\* The handler is entered and returns its promise.
FlowDeliver(m) == Deliver(m) /\ last'.finished = EmptyBag

\* The promise of the handler resolves.
FlowSettles(m) ==
    \E inv \in BagToSet(inflight) :
        /\ inv.msg = m
        /\ HandlerSettles(inv)
        /\ \A f \in BagToSet(last'.finished) : f.userOutcome = "resolves"

FlowNext ==
    \/ FlowListen
    \/ FlowListenProbed
    \/ \E m \in JsonMessages : FlowPublish(m)
    \/ \E m \in JsonMessages : FlowDeliver(m)
    \/ \E m \in JsonMessages : FlowSettles(m)

\* The transport delivers every message that is not acked, again and again
\* until it is, even when flow control holds it back for a while; a promise
\* that resolves is noticed by the callback awaiting it.
FlowFairness ==
    \A m \in JsonMessages :
        /\ SF_vars(FlowDeliver(m))
        /\ WF_vars(FlowSettles(m))

FlowSpec == FlowInit /\ [][FlowNext]_vars /\ FlowFairness

(***************************************************************************)
(*             Claims about the Subscriber and its callback                *)
(***************************************************************************)

\* The 'message' callbacks that ran to their end in the latest step.
FinishedNow == {f \in BagToSet(last.finished) : f.msg # "none"}

\* The user handler was invoked and raised: it threw or its promise rejected.
UserRaised(f) == f.userCalled /\ f.userOutcome \in {"rejects", "throws"}

\* C1: for every delivered message whose user handler raises, the callback
\* nacks the message exactly once, never acks it, invokes the error handler
\* exactly once with that message, and nothing reaches the process level.
C1_HandlerErrorNackedReportedContained ==
    \A f \in FinishedNow :
        UserRaised(f) =>
            /\ f.nacks = 1
            /\ f.acks = 0
            /\ f.errCalls = 1
            /\ f.errMessage = f.msg
            /\ ~f.escaped

C3_NothingEscapesTheCallback ==
    \A f \in FinishedNow : ~f.escaped

\* C4: listen() / listenJson() on a Subscriber whose close() or delete() has
\* completed is rejected with an error, installs no handler and makes no
\* transport call.
C4_ListenAfterCloseRejected ==
    [][ (last'.step = "Listen" /\ completed # {})
            => /\ last'.ret = "closed-error"
               /\ last'.calls = <<>>
               /\ listeners' = listeners
               /\ listenCall' = listenCall
               /\ subExists' = subExists ]_vars

C4_Witness ==
    /\ last = Did("Listen", "closed-error", <<>>, EmptyBag)
    /\ completed = {"close"}
    /\ subExists
    /\ listeners = EmptyBag

Returned == rpc \in {"return-result", "return-undefined"}
Raised == rpc \in {"throw-error", "throw-timeout"}
Finished == Returned \/ Raised
Invocations == Len(outcomes)
LastOutcome == outcomes[Len(outcomes)]

AlwaysRaises == \A i \in 1..Len(outcomes) : outcomes[i].kind = "raise"

\* C6: with maxRetry = n >= 1 and retryOnAllErrors = true, an action that
\* raises on every attempt is invoked exactly n times and retry returns
\* undefined without raising.
C6_AlwaysRaisingReturnsUndefined ==
    (Opt.maxRetry >= 1 /\ Opt.retryOnAllErrors /\ AlwaysRaises)
        => /\ ~Raised
           /\ Invocations <= Opt.maxRetry
           /\ Finished => /\ rpc = "return-undefined"
                          /\ result = Undefined
                          /\ Invocations = Opt.maxRetry

C6_Witness ==
    /\ Opt.maxRetry = 3 /\ Opt.retryOnAllErrors /\ AlwaysRaises
    /\ Invocations = 3 /\ Returned /\ result = Undefined
    /\ \E i \in 1..3 : outcomes[i].val = "Error"

DefaultPolicy ==
    /\ Opt.retryOnUndefined
    /\ Opt.retryOnAllErrors
    /\ Opt.shouldRetry = {}

Qualifies(o) == o.kind = "return" /\ o.val \in PlainValues
RaisesOrUndefined(o) == o.kind = "raise" \/ o.val = Undefined

\* C7: under the default policy, when attempts 1..k-1 raise or return
\* undefined and attempt k <= maxRetry gives a defined, non-error result, the
\* action is invoked exactly k times and that result is returned unchanged.
C7_FirstQualifyingResultReturned ==
    DefaultPolicy =>
        /\ ( /\ rpc # "idle"
             /\ \A i \in 1..Len(outcomes) : RaisesOrUndefined(outcomes[i])
             /\ Invocations < Opt.maxRetry )
            => rpc = "loop"
        /\ ( /\ Invocations >= 1
             /\ Qualifies(LastOutcome)
             /\ \A i \in 1..(Len(outcomes) - 1) : RaisesOrUndefined(outcomes[i]) )
            => /\ rpc = "return-result"
               /\ result = LastOutcome.val
               /\ counter = Invocations
               /\ Invocations <= Opt.maxRetry

C7_Witness ==
    /\ DefaultPolicy /\ Invocations = 3 /\ rpc = "return-result"
    /\ outcomes[1].kind = "raise" /\ outcomes[2] = [kind |-> "return", val |-> Undefined]
    /\ result = "v2"

\* C8: with retryOnAllErrors = false and no shouldRetry, an error that is not
\* a RetryError raised on attempt 1 is re-raised as it is after exactly one
\* invocation.
C8_NonRetryErrorReRaised ==
    ( /\ Opt.retryOnAllErrors = FALSE
      /\ Opt.shouldRetry = {}
      /\ Invocations >= 1
      /\ outcomes[1].kind = "raise"
      /\ ~IsRetryError(outcomes[1].val) )
        => /\ rpc = "throw-error"
           /\ result = outcomes[1].val
           /\ Invocations = 1

C8_Witness ==
    /\ Opt.retryOnAllErrors = FALSE /\ Opt.shouldRetry = {} /\ Opt.maxRetry = 3
    /\ outcomes = <<[kind |-> "raise", val |-> "Error"]>>
    /\ rpc = "throw-error" /\ result = "Error"

\* The reasons for which an attempt is retried, as the claim lists them.
RetryableRaise(v) ==
    \/ Opt.retryOnAllErrors
    \/ IsRetryError(v)
    \/ (Opt.shouldRetry # {} /\ IsError(v) /\ v \in OrDefault(Opt.shouldRetry, {}))

EndsInRetry(o) ==
    \/ o.kind = "raise" /\ RetryableRaise(o.val)
    \/ o.kind = "return" /\ Opt.shouldRetry # {}
        /\ o.val \in OrDefault(Opt.shouldRetry, {})
    \/ o.kind = "return" /\ o.val = Undefined /\ Opt.retryOnUndefined
    \/ o.kind = "return" /\ IsError(o.val) /\ RetryableRaise(o.val)

\* C9: when every one of the maxRetry attempts ends in a retry decision,
\* retry returns undefined and raises no timeout or exhaustion error.
C9_ExhaustionReturnsUndefined ==
    ( /\ Finished
      /\ Invocations = Opt.maxRetry
      /\ \A i \in 1..Len(outcomes) : EndsInRetry(outcomes[i]) )
        => /\ rpc = "return-undefined"
           /\ result = Undefined

C9_Witness ==
    /\ Finished /\ Opt.maxRetry = 3 /\ Invocations = 3
    /\ outcomes[1].kind = "raise"
    /\ outcomes[2] = [kind |-> "return", val |-> Undefined]
    /\ outcomes[3] = [kind |-> "return", val |-> "v1"]
    /\ \A i \in 1..3 : EndsInRetry(outcomes[i])
    /\ result = Undefined

\* C10 as stated: a return of undefined always means that the attempts were
\* exhausted without a qualifying result.
C10_UndefinedMeansExhausted ==
    (Returned /\ result = Undefined) => Invocations >= Opt.maxRetry

\* C10 amended: a return of undefined means that the attempts were exhausted
\* or that the action itself returned undefined while retryOnUndefined is false.
C10_UndefinedExhaustedOrPassedThrough ==
    (Returned /\ result = Undefined)
        => \/ (rpc = "return-undefined" /\ Invocations >= Opt.maxRetry)
           \/ ( /\ rpc = "return-result"
                /\ Opt.retryOnUndefined = FALSE
                /\ LastOutcome = [kind |-> "return", val |-> Undefined] )

C10_Witness ==
    /\ Returned /\ result = Undefined
    /\ Opt.maxRetry = 3 /\ Invocations = 1
    /\ Opt.retryOnUndefined = FALSE

\* The iteration of attempt k ended in `continue`.
Continued(k) ==
    \/ k < Len(outcomes)
    \/ k = Len(outcomes) /\ rpc \in {"loop", "return-undefined"}

\* What the caller's shouldRetry answers for the value of an outcome.
PredicateTrue(o) == o.val \in OrDefault(options.shouldRetry, {})

\* What retryOnUndefined and retryOnAllErrors alone say about an outcome.
FlagsRetry(o) ==
    IF o.kind = "return" /\ ~IsError(o.val)
    THEN o.val = Undefined /\ Opt.retryOnUndefined
    ELSE Opt.retryOnAllErrors \/ IsRetryError(o.val)

\* C11 as stated: when shouldRetry is supplied the decision is the
\* predicate's alone, so an outcome for which it returns false is not
\* retried whatever retryOnUndefined and retryOnAllErrors are.
C11_PredicateAloneDecides ==
    options.shouldRetry # {} =>
        \A k \in 1..Len(outcomes) :
            ~PredicateTrue(outcomes[k]) => ~Continued(k)

\* C11 amended: a supplied shouldRetry overrides the flags in one direction
\* only.  An outcome for which it returns true is retried whatever the flags
\* are; an outcome for which it returns false is retried exactly when
\* retryOnUndefined / retryOnAllErrors say so.
C11_PredicateOnlyAddsRetries ==
    options.shouldRetry # {} =>
        \A k \in 1..Len(outcomes) :
            /\ PredicateTrue(outcomes[k]) => Continued(k)
            /\ ~PredicateTrue(outcomes[k])
                => (Continued(k) <=> FlagsRetry(outcomes[k]))

C11_Witness ==
    /\ options.shouldRetry = {{"Error"}}
    /\ Opt.retryOnUndefined /\ ~Opt.retryOnAllErrors
    /\ Len(outcomes) = 3
    /\ outcomes[1] = [kind |-> "return", val |-> Undefined]
    /\ outcomes[2] = [kind |-> "raise", val |-> "Error"]
    /\ outcomes[3] = [kind |-> "return", val |-> "v1"]
    /\ rpc = "return-result"

\* C29: retry never waits before the first attempt and waits once before
\* every later one: at every point of a run the number of waits is the
\* number of invocations made minus one (none when there was no invocation),
\* so no wait follows the last attempt.
C29_OneWaitBetweenAttempts ==
    waits = IF Invocations = 0 THEN 0 ELSE Invocations - 1

C29_Witness ==
    /\ Finished
    /\ Invocations = 3
    /\ waits = 2

\* The reasons for which the claim lets a raised failure be retried.
RaiseRetried(o) ==
    \/ (options.shouldRetry # {} /\ PredicateTrue(o))
    \/ Opt.retryOnAllErrors
    \/ IsRetryError(o.val)

ReturnedError(k) ==
    outcomes[k].kind = "return" /\ IsError(outcomes[k].val)

\* C31: retry never returns a result that is an Error; an attempt that
\* resolves with an Error is followed by the next attempt, or ends the run
\* with that Error raised, by the rules that hold for the same Error raised
\* by the action.
C31_ErrorResultHandledAsRaised ==
    /\ rpc = "return-result" => ~IsError(result)
    /\ \A k \in 1..Len(outcomes) :
            ReturnedError(k) =>
                IF RaiseRetried(outcomes[k])
                THEN Continued(k)
                ELSE /\ k = Len(outcomes)
                     /\ rpc = "throw-error"
                     /\ result = outcomes[k].val

\* With retryOnAllErrors = false a RetryError result was retried and the
\* plain Error result that followed was raised to the caller.
C31_Witness ==
    /\ Opt.retryOnAllErrors = FALSE
    /\ options.shouldRetry = {}
    /\ outcomes = <<[kind |-> "return", val |-> "RetryError"],
                    [kind |-> "return", val |-> "Error"]>>
    /\ rpc = "throw-error"
    /\ result = "Error"

\* Attempt k resolved with undefined.
ReturnedUndefined(k) == outcomes[k] = [kind |-> "return", val |-> Undefined]

\* C32: with retryOnUndefined = false and no shouldRetry, an undefined result
\* of attempt 1 ends the run: one invocation, no wait, undefined returned;
\* with retryOnUndefined = true every undefined result is followed by the
\* next attempt, until maxRetry attempts were made.
C32_UndefinedResultPolicy ==
    /\ (/\ ~Opt.retryOnUndefined
         /\ options.shouldRetry = {}
         /\ Invocations >= 1
         /\ ReturnedUndefined(1))
            => /\ Invocations = 1
               /\ waits = 0
               /\ rpc = "return-result"
               /\ result = Undefined
    /\ Opt.retryOnUndefined =>
            \A k \in 1..Len(outcomes) :
                ReturnedUndefined(k) =>
                    /\ Continued(k)
                    /\ (k = Len(outcomes) /\ rpc = "return-undefined")
                            => k = Opt.maxRetry

\* With retryOnUndefined = false and maxRetry = 3, undefined was handed back
\* after the first attempt.
C32_Witness ==
    /\ ~Opt.retryOnUndefined /\ options.shouldRetry = {}
    /\ Opt.maxRetry = 3
    /\ outcomes = <<[kind |-> "return", val |-> Undefined]>>
    /\ rpc = "return-result" /\ result = Undefined /\ waits = 0

\* The largest number of invocations that maxRetry allows.
AttemptsAllowed == IF Opt.maxRetry > 0 THEN Opt.maxRetry ELSE 0

\* C33: in every run of retry the action is invoked at most maxRetry times;
\* with maxRetry <= 0 it is never invoked and retry returns undefined; and a
\* run whose action settles at every invocation comes to its end.
C33_BoundedAttemptsAndTermination ==
    /\ [](Invocations <= AttemptsAllowed)
    /\ []((Opt.maxRetry <= 0 /\ Finished)
            => (Invocations = 0 /\ rpc = "return-undefined"
                /\ result = Undefined))
    /\ (rpc = "loop" ~> Finished)

\* A run with maxRetry = 2 ended after two invocations that raised.
C33_Witness ==
    /\ options.maxRetry = {2}
    /\ Invocations = 2
    /\ AlwaysRaises
    /\ Finished

(***************************************************************************)
(*            Claims about createTopic / createSubscription                *)
(***************************************************************************)

\* The create calls for resource kind r ran one after the other and each
\* returned a handle.
InSequence(r) ==
    /\ r \notin overlap
    /\ \A k \in 1..Len(log[r]) : log[r][k] \in {"found", "created"}

\* C12: createTopic and createSubscription are create-or-get: calls made in
\* sequence for the same name never get ALREADY_EXISTS, and of two such
\* calls that both return a handle only the first can have invoked the
\* transport create, the second finds the resource, and the resource exists
\* after each call.
C12_CreateOrGetIdempotent ==
    \A r \in Resources :
        /\ r \notin overlap
            => \A k \in 1..Len(log[r]) : log[r][k] # "already-exists-error"
        /\ InSequence(r) =>
            /\ \A k \in 2..Len(log[r]) : log[r][k] = "found"
            /\ Len(log[r]) >= 1 => Exists(r)

C12_Witness ==
    /\ InSequence("topic") /\ log["topic"] = <<"created", "found">>
    /\ InSequence("subscription") /\ log["subscription"] = <<"created", "found">>
    /\ topicExists /\ subExists

\* C13: createTopic is safe under races: when two callers call it at the
\* same time for the same absent name, no interleaving lets an error reach
\* either of them.
C13_RacingCreateTopicNeverFails ==
    \A k \in 1..Len(log["topic"]) : log["topic"][k] \in {"found", "created"}

\* The callers whose createSubscription call has a create request under way.
SentCreateSubscription ==
    {c \in Callers : prov[c].res = "subscription" /\ prov[c].createOpts # {}}

\* The retry policy of the create request of caller c, and the one in the
\* options that caller gave ({} when it gave none).
SentPolicy(c) == OrDefault(prov[c].createOpts, NoCall).retryPolicy
GivenPolicy(c) ==
    OrDefault(prov[c].options, [retryPolicy |-> {}, gaxOpts |-> {}]).retryPolicy

\* A duration in milliseconds.
Millis(d) == d.seconds * 1000 + d.nanos \div 1000000

\* C24: the create request of createSubscription always carries a retry
\* policy: when the caller's options have none, it is the default one, with
\* a minimum backoff of 1 s and a maximum of 60 s, minimum <= maximum; a
\* policy supplied by the caller is sent as it was given.
C24_SubscriptionBackoffDefaulted ==
    \A c \in SentCreateSubscription :
        /\ SentPolicy(c) # {}
        /\ IF GivenPolicy(c) = {}
           THEN \E policy \in SentPolicy(c) :
                    \E min \in policy.minimumBackoff, max \in policy.maximumBackoff :
                        /\ Millis(min) = 1000
                        /\ Millis(max) = 60000
                        /\ Millis(min) <= Millis(max)
           ELSE SentPolicy(c) = GivenPolicy(c)

\* Two create requests are under way: one of a caller that gave no options,
\* one of a caller that gave a policy of its own.
C24_Witness ==
    /\ \E c \in SentCreateSubscription :
        /\ prov[c].options = {}
        /\ SentPolicy(c) = {DefaultRetryPolicy}
    /\ \E c \in SentCreateSubscription :
        /\ GivenPolicy(c) # {}
        /\ GivenPolicy(c) # {DefaultRetryPolicy}

\* The errors that are not among the retryCodes of generateCallOptions.
NonTransientErrors ==
    {err \in TransportFailures \cup {"already-exists-error", "not-found-error"} :
        GrpcCode(err) \notin PublishRetrySetting.retryCodes}

\* C25: a call of createTopic / createSubscription ends with a handle for a
\* resource that exists, or with the error the transport answered to its
\* probe or to its create request: the error is what the caller gets, the
\* call makes no further transport call, and no resource appears.  A call
\* sends one create request at most, after a probe that found nothing.
C25_ProvisioningErrorsPropagate ==
    [][ /\ (prov["a"].pc # "idle" /\ prov'["a"].pc = "idle")
            => LET r == prov["a"].res IN
               \/ /\ last'.ret = "handle"
                  /\ IF r = "topic" THEN topicExists' ELSE subExists'
                  /\ log'[r] \in {Append(log[r], "found"), Append(log[r], "created")}
               \/ /\ last'.ret \in NonTransientErrors \cup TransportFailures
                  /\ log'[r] = Append(log[r], last'.ret)
                  /\ last'.calls = <<>>
                  /\ topicExists' = topicExists
                  /\ subExists' = subExists
        /\ (prov["a"].pc # "idle" /\ prov'["a"].pc # "idle")
            => /\ prov["a"].pc = "probing"
               /\ prov'["a"].pc = "creating"
               /\ ~Exists(prov["a"].res)
               /\ last'.calls = <<"create">> ]_vars

\* A probe and a create request were each answered PERMISSION_DENIED, and
\* each error reached the caller.
C25_Witness ==
    /\ last = Did("ProvisionCreated", "permission-denied-error", <<>>, EmptyBag)
    /\ log["topic"] = <<"permission-denied-error">>
    /\ log["subscription"] = <<"permission-denied-error">>
    /\ ~subExists

(***************************************************************************)
(*                     Claims about the JSON path                          *)
(***************************************************************************)

\* C14: publishJson always publishes with attribute contentType =
\* 'application/json', whatever options the caller gives: absent, without
\* attributes, or with another contentType, which is overwritten; the other
\* attributes of the caller are kept.
C14_PublishJsonForcesMarker ==
    sent.op = "publishJson" =>
        /\ Attribute(wire.attributes, "contentType") = CONTENT_TYPE_JSON
        /\ \A a \in wire.attributes : a[1] = "contentType" => a[2] = CONTENT_TYPE_JSON
        /\ \A o \in sent.options : \A attrs \in o.attributes : \A a \in attrs :
                a[1] # "contentType" => a \in wire.attributes

C14_Witness ==
    /\ sent.op = "publishJson"
    /\ sent.options = {[attributes |->
            {{<<"contentType", "text/plain">>, <<"type", "regular">>}}]}
    /\ wire.attributes = {<<"contentType", CONTENT_TYPE_JSON>>, <<"type", "regular">>}

\* C15: round trip: a JSON value v published with publishJson(v) and
\* delivered to a listenJson handler reaches the handler as a value equal
\* to v.
C15_JsonRoundTrip ==
    (sent.op = "publishJson" /\ sent.value \in JsonValues /\ got.delivered)
        => /\ got.handlerCalled
           /\ got.arg = sent.value
           /\ got.rejected = "none"

C15_Witness ==
    /\ sent.op = "publishJson"
    /\ sent.value = JObj(<<<<"a", JObj(<<<<"b", JNull>>>>)>>,
                           <<"c", JArr(<<JBool("true")>>)>>>>)
    /\ got.delivered /\ got.handlerCalled /\ got.arg = sent.value

\* C16: listenJson tries to deserialize a delivered message only when the
\* message carries contentType = 'application/json'; a message without the
\* marker is not parsed.
C16_MarkerDecidesParsing ==
    (got.delivered /\ (got.parsed \/ got.rejected = "parse"))
        => Attribute(wire.attributes, "contentType") = CONTENT_TYPE_JSON


\* C23: a publishJson / publishMessage call makes one topic.publishMessage
\* call, whatever the transport answers; when the broker assigned a message
\* id, the call returns that id, and when the transport failed, the call
\* raises that error.  Nothing is published after the call has ended.
C23_PublisherPublishesOnce ==
    sent # NoSent =>
        /\ last.step \in {"PublishJson", "PublishMessage"}
            => /\ last.calls = <<"publishMessage">>
               /\ last.ret = wire.answer
        /\ wire.answer \in MessageIds \cup PublishErrors

\* A publishJson call has just failed with the error of the transport.
C23_Witness ==
    /\ last = Did("PublishJson", "publish-error", <<"publishMessage">>, EmptyBag)
    /\ sent.op = "publishJson"
    /\ wire.answer = "publish-error"
    /\ ~got.delivered

(***************************************************************************)
(*          Claims about listen, delivery and close of a Subscriber        *)
(***************************************************************************)

\* C19: a listen() whose existence probe finds no subscription raises the
\* "does not exist" error and installs nothing on the subscription: the
\* handler sets (message, error, debug and close listeners) are as before.
C19_ListenOnMissingInstallsNothing ==
    [][(listenCall.pc = "probing" /\ listenCall'.pc = "idle" /\ ~subExists)
        => (/\ last'.step = "ListenProbed"
            /\ last'.ret = "missing-error"
            /\ listeners' = listeners)]_vars

\* A listen() has just raised for a subscription that does not exist, and
\* no listener is installed.
C19_Witness ==
    /\ last.step = "ListenProbed"
    /\ last.ret = "missing-error"
    /\ ~subExists
    /\ listeners = EmptyBag


\* The callbacks in a bag that were entered with message m.
CallbacksFor(bag, m) ==
    [inv \in {x \in BagToSet(bag) : x.msg = m} |-> bag[inv]]

\* How many callbacks handle message m now: those still awaiting their
\* user handler, and those that ran to their end in the delivery just made.
HandledBy(m) ==
    BagCardinality(CallbacksFor(inflight, m))
        + (IF last.step = "Deliver"
           THEN BagCardinality(CallbacksFor(last.finished, m)) ELSE 0)

\* C18: whatever listen()/listenJson() calls were made on the Subscriber, a
\* delivered message is handled by at most one delivery callback, and so it
\* is acked or nacked at most once.
C18_AtMostOneHandlerPerDelivery ==
    \A m \in Messages : HandledBy(m) <= 1


\* C20: once a close() or delete() of the Subscriber has completed, the
\* Subscriber is closed, no listener is attached to the subscription, and no
\* message is handed to a delivery callback any more.
C20_NothingHandledAfterClose ==
    completed # {} =>
        /\ subscriberClosed
        /\ listeners = EmptyBag
        /\ last.step # "Deliver"


\* Message m has just been acked by the callback that handled it: the user
\* handler was invoked, the message was acked once and not nacked.
Acked(m) ==
    /\ last.step = "HandlerSettles"
    /\ \E f \in FinishedNow :
        /\ f.msg = m
        /\ f.listener.json
        /\ f.userCalled
        /\ f.acks = 1
        /\ f.nacks = 0

CallsOf(step) == {step.calls[k] : k \in 1..Len(step.calls)}

\* C21: close(), alone or as the first part of delete(), never calls the
\* transport delete and leaves the existence of the subscription as it was;
\* the subscription disappears only in the step in which delete() finishes
\* its transport delete, or when another owner deletes it.
C21_CloseRetainsSubscription ==
    [][ /\ (last'.step \in {"Close", "CloseDone", "DeleteClosed"}
                \/ (last'.step = "Delete" /\ ~subscriberClosed))
            => /\ "delete" \notin CallsOf(last')
               /\ subExists' = subExists
        /\ (subExists /\ ~subExists')
            => last'.step \in {"DeleteDone", "DeletedElsewhere"} ]_vars

\* close() has returned and the subscription is still on the transport.
C21_Witness ==
    /\ last = Did("CloseDone", "ok", <<>>, EmptyBag)
    /\ completed = {"close"}
    /\ subscriberClosed
    /\ subExists


\* How the latest createSubscription call ended.
LastProvisioned == log["subscription"][Len(log["subscription"])]

\* The Subscriber in use came from createSubscriber and no close() or
\* delete() of it has completed.
IsReplacement == log["subscription"] # <<>> /\ completed = {}

C26_ParseFailureNackedAndReported ==
    \A f \in FinishedNow :
        (f.listener.json /\ f.msg \notin ParsableMessages)
            => /\ ~f.userCalled
               /\ f.nacks = 1
               /\ f.acks = 0
               /\ f.errCalls = 1
               /\ f.errMessage = f.msg
               /\ f.report = "parse"

\* The text message has just been delivered to a listenJson listener.
C26_Witness ==
    /\ last.step = "Deliver"
    /\ \E f \in FinishedNow :
        /\ f.listener.json
        /\ f.msg = "m-text"
        /\ ~f.userCalled
        /\ f.nacks = 1
        /\ f.report = "parse"


\* The error handlers called for an 'error' event in the latest step.
ErrorsHandledNow == {f \in BagToSet(last.finished) : f.msg = "none"}

\* C27: an 'error' event on a subscription that is listened to always finds
\* an error listener.  Each error handler called is the one of an installed
\* handler set, the same that gets the failures of its message handler; it
\* is called once, without a message, and nothing is acked or nacked.  A
\* handler set installed without an error handler has the default one, which
\* only logs.  Every installed set is reached unless a supplied handler threw.
C27_ErrorEventRoutedToErrorHandler ==
    last.step = "ErrorEvent" =>
        /\ last.ret = "ok"
        /\ ErrorsHandledNow # {}
        /\ ErrorsHandledNow = BagToSet(last.finished)
        /\ \A f \in ErrorsHandledNow :
            /\ f.listener \in BagToSet(listeners)
            /\ f.errCalls = 1
            /\ f.errMessage = "none"
            /\ ~f.userCalled
            /\ f.acks = 0 /\ f.nacks = 0
            /\ ~f.listener.custom => ~f.escaped
        /\ \/ BagCardinality(last.finished) = BagCardinality(listeners)
           \/ \E f \in ErrorsHandledNow : f.escaped

\* An 'error' event has just been handled by the default error handler of a
\* listener installed without one.
C27_Witness ==
    /\ last.step = "ErrorEvent"
    /\ BagCardinality(listeners) = 1
    /\ \E f \in ErrorsHandledNow :
        /\ ~f.listener.custom
        /\ f.errCalls = 1
        /\ f.errMessage = "none"

\* C34: whatever the interleaving of a listen() call with a close() or
\* delete() call on the Subscriber, once close() or delete() has completed no
\* delivery handler is installed on it, also when the listen() had passed
\* its closed check before.
C34_NoHandlerLeftAfterClose ==
    completed # {} => listeners = EmptyBag

\* C35: a Subscriber that is closed stays closed, and one that is deleted
\* stays deleted, whatever listen(), close() and delete() calls follow; every
\* listen() on it is rejected.
C35_ClosedIsMonotonic ==
    [][ /\ subscriberClosed => subscriberClosed'
        /\ completed \subseteq completed'
        /\ (subscriberClosed /\ last'.step = "Listen")
                => (last'.ret = "closed-error" /\ listenCall' = listenCall)
        /\ "delete" \in completed => (subscriberClosed' /\ ~subExists') ]_vars

\* On a Subscriber that was closed, a second close() failed in the transport
\* and the Subscriber is still closed.
C35_Witness ==
    /\ last = Did("CloseDone", "error", <<>>, EmptyBag)
    /\ completed = {"close"}
    /\ subscriberClosed

\* The calls a step made on the subscription object, as a set.
CallsMade(step) == {step.calls[k] : k \in 1..Len(step.calls)}

\* C36: delete() on a closed Subscriber makes no transport close; delete()
\* calls the transport delete only after its probe found the subscription;
\* when the probe finds none, delete() returns normally without a delete.
C36_DeleteClosesOnceAndProbes ==
    [][ /\ (last'.step = "Delete" /\ subscriberClosed)
                => last'.calls = <<"exists">>
        /\ "delete" \in CallsMade(last')
                => (last'.step = "DeleteProbed" /\ subExists)
        /\ (last'.step = "DeleteProbed" /\ ~subExists)
                => (last'.ret = "ok" /\ last'.calls = <<>>
                    /\ "delete" \in completed') ]_vars

\* delete() on a Subscriber closed by close(), whose subscription was gone:
\* it returned without closing again and without deleting.
C36_Witness ==
    /\ last = Did("DeleteProbed", "ok", <<>>, EmptyBag)
    /\ completed = {"close", "delete"}
    /\ subscriberClosed

\* C37: when the transport close fails inside close(), the error reaches
\* the caller and the Subscriber is not marked closed, so that a later
\* listen() is accepted, although close() had detached the listeners; a
\* delete() that made this close() ends there, with no probe and no delete.
C37_FailedCloseLeavesSubscriberOpen ==
    [][ /\ (last'.step \in {"Close", "Delete"}
                /\ "close" \in CallsMade(last'))
                => listeners' = EmptyBag
        /\ (last'.step \in {"CloseDone", "DeleteClosed"}
                /\ last'.ret = "error")
                => /\ subscriberClosed' = subscriberClosed
                   /\ completed' = completed
                   /\ listeners' = listeners
                   /\ subExists' = subExists
                   /\ last'.calls = <<>>
                   /\ closePc' = "idle"
        /\ (last'.step = "Listen" /\ ~subscriberClosed)
                => last'.ret = "pending" ]_vars

\* The close() made by delete() failed: the Subscriber is open, without
\* listeners, and its subscription still exists.
C37_Witness ==
    /\ last = Did("DeleteClosed", "error", <<>>, EmptyBag)
    /\ ~subscriberClosed
    /\ completed = {}
    /\ listeners = EmptyBag
    /\ subExists

\* C38: close() leaves the handler invocations in flight alone: one that
\* finishes after close() has completed acks its message once when the user
\* handler succeeded, and nacks it once and calls the error handler once with
\* it when the user handler failed.
C38_InFlightSettlesAfterClose ==
    (subscriberClosed /\ last.step = "HandlerSettles") =>
        \A f \in FinishedNow :
            /\ f.acks + f.nacks = 1
            /\ f.userOutcome = "resolves" => (f.acks = 1 /\ f.errCalls = 0)
            /\ f.userOutcome = "rejects"
                => (f.nacks = 1 /\ f.errCalls = 1 /\ f.errMessage = f.msg)

\* close() has just completed while a user handler is still running.
C38_Witness ==
    /\ last = Did("CloseDone", "ok", <<>>, EmptyBag)
    /\ subscriberClosed
    /\ \E inv \in BagToSet(inflight) : inv.userCalled /\ IsAwaiting(inv)

\* C39: a listenJson listener reports 'Failed to parse JSON' only for a
\* message whose payload could not be deserialized; a user handler that
\* fails, by rejecting or by raising before it returns, is reported as a
\* handler error.
C39_ParseFailureOnlyForBadPayload ==
    \A f \in FinishedNow :
        f.listener.json =>
            /\ f.report = "parse" => f.msg \notin ParsableMessages
            /\ UserRaised(f) => f.report = "handler"

(***************************************************************************)
(*                  Claims about getPubSubLoggerPayload                    *)
(***************************************************************************)

\* The payload returned by the latest call and the request it was built from.
PayloadBuilt == last.step = "LoggerPayload"

\* The fields of a payload that are set.
FieldsSet(payload) == {f \in PayloadFields : payload[f] # {}}

GrpcFields == {"grpcErrorStatus", "grpcErrorMetadata", "grpcErrorDetails"}

\* The fields that hold a text; the status is a number, the metadata an object.
TextFields == PayloadFields \ {"grpcErrorStatus", "grpcErrorMetadata"}

TopicFromSubscription(input) ==
    Truthy(UNION {TopicNameOf(sub.topic) : sub \in input.subscription})

\* C40: the topic name of the payload is the name of the topic reached from
\* the subscription when the subscription yields one, and otherwise the name
\* of the topic of the request; the message id is the id of the message when
\* a message is given, and otherwise the bare message id of the request.
C40_TopicAndMessageIdPrecedence ==
    PayloadBuilt =>
        LET input == sent.input
            payload == last.ret
        IN  /\ payload.topicName =
                    IF TopicFromSubscription(input) # {}
                    THEN TopicFromSubscription(input)
                    ELSE TopicNameOf(input.topic)
            /\ payload.messageId =
                    IF input.message # {}
                    THEN {m.id : m \in input.message}
                    ELSE Truthy(input.messageId)

====
